---- MODULE Spec2Model ----
(***************************************************************************)
(* Model of hr_reporting_pipeline.py: the HR attrition reporting pipeline. *)
(*                                                                         *)
(* The script is one linear run.  Its state is the module-level tables     *)
(* (DataFrames) it assigns, and the position of the run (pc).  The         *)
(* PostgreSQL store it reads is the environment: db is chosen in Init and  *)
(* never changes.                                                          *)
(*                                                                         *)
(* Representation.                                                         *)
(*  - A cell is a set with at most one element: {} is pandas' missing       *)
(*    value (NaN / None / NaT), {v} is the value v.                         *)
(*  - A row is a function from column names to cells.                      *)
(*  - A DataFrame is [columns |-> set of column names, rows |-> sequence   *)
(*    of rows]; pd.DataFrame() is the frame with no columns and no rows.   *)
(*  - A date is its day number (days since 1970-01-01).                    *)
(*  - The text of event_month ("2023-04", "NaT") is the sequence of its     *)
(*    character codes, so that the lexical sort is computed, not assumed.  *)
(*  - attrition_rate and the columns derived from it are exact fractions   *)
(*    [num, den] in lowest terms.                                          *)
(***************************************************************************)
EXTENDS Integers, Sequences, FiniteSets, TLC

VARIABLES
    db,                 \* the tables of the PostgreSQL store (environment)
    pc,                 \* the section of the script the run is about to execute
    error,              \* the exception that ended the run, or "none"
    fact, dim_dept_raw, dim_pos_raw, dim_mgr_raw, dim_race_raw,
    dim_departments, dim_positions, dim_managers, dim_race,
    df_analytics,
    monthly_summary,
    files,              \* the output files written so far
    dim_departments_clean, dim_positions_clean, dim_managers_clean, dim_race_clean,
    fact_hr_clean,
    fact_attrition_clean

raws     == <<fact, dim_dept_raw, dim_pos_raw, dim_mgr_raw, dim_race_raw>>
dims     == <<dim_departments, dim_positions, dim_managers, dim_race>>
cleandims == <<dim_departments_clean, dim_positions_clean, dim_managers_clean, dim_race_clean>>
vars == <<db, pc, error, raws, dims, df_analytics, monthly_summary, files,
          cleandims, fact_hr_clean, fact_attrition_clean>>

-----------------------------------------------------------------------------
(* Cells, rows, frames *)

NaN == {}
IsNa(cell) == cell = {}
Val(cell) == CHOOSE v \in cell : TRUE

EmptyFrame == [columns |-> {}, rows |-> <<>>]
Frame(cols, rows) == [columns |-> cols, rows |-> rows]
IsEmpty(df) == df.columns = {} \/ Len(df.rows) = 0

Range(s) == {s[i] : i \in 1..Len(s)}

RECURSIVE SumSeq(_)
SumSeq(s) == IF s = <<>> THEN 0 ELSE s[1] + SumSeq(Tail(s))

RECURSIVE Flatten(_)
Flatten(ss) == IF ss = <<>> THEN <<>> ELSE ss[1] \o Flatten(Tail(ss))

\* df[[c1, ...]]: the listed columns only
SelectColumns(df, cols) ==
    Frame(cols, [i \in 1..Len(df.rows) |-> [c \in cols |-> df.rows[i][c]]])

\* df.drop(columns=cols, errors='ignore')
DropColumns(df, cols) == SelectColumns(df, df.columns \ cols)

\* df.rename(columns={old: new})
Rename(df, old, new) ==
    LET nc(c) == IF c = old THEN new ELSE c
        cols  == {nc(c) : c \in df.columns}
    IN  Frame(cols, [i \in 1..Len(df.rows) |->
                        [c \in cols |-> IF c = new /\ old \in df.columns
                                        THEN df.rows[i][old] ELSE df.rows[i][c]]])

\* df.dropna(subset=cols): drop the rows with a missing value in one of cols
DropNa(df, cols) ==
    LET Keep(r) == \A c \in cols : ~IsNa(r[c])
    IN  Frame(df.columns, SelectSeq(df.rows, Keep))

-----------------------------------------------------------------------------
(* Text as character codes, for event_month *)

Digit(n) == 48 + n
\* the decimal digits of n >= 0, zero-padded to width w
RECURSIVE Digits(_, _)
Digits(n, w) == IF w = 0 THEN <<>> ELSE Append(Digits(n \div 10, w - 1), Digit(n % 10))

NaTText     == <<78, 97, 84>>                          \* "NaT"
UnknownText == <<85, 110, 107, 110, 111, 119, 110>>    \* "Unknown"
Dash        == 45

\* Python's str comparison a < b
RECURSIVE LexLess(_, _)
LexLess(a, b) ==
    IF b = <<>> THEN FALSE
    ELSE IF a = <<>> THEN TRUE
    ELSE IF a[1] # b[1] THEN a[1] < b[1]
    ELSE LexLess(Tail(a), Tail(b))

-----------------------------------------------------------------------------
(* Calendar: the proleptic Gregorian calendar pandas uses *)

DaysFromCivil(y0, m, d) ==
    LET y   == IF m <= 2 THEN y0 - 1 ELSE y0
        era == y \div 400
        yoe == y - era * 400
        mp  == IF m > 2 THEN m - 3 ELSE m + 9
        doy == (153 * mp + 2) \div 5 + d - 1
        doe == yoe * 365 + yoe \div 4 - yoe \div 100 + doy
    IN  era * 146097 + doe - 719468

CivilFromDays(z0) ==
    LET z   == z0 + 719468
        era == z \div 146097
        doe == z - era * 146097
        yoe == (doe - doe \div 1460 + doe \div 36524 - doe \div 146096) \div 365
        doy == doe - (365 * yoe + yoe \div 4 - yoe \div 100)
        mp  == (5 * doy + 2) \div 153
        d   == doy - (153 * mp + 2) \div 5 + 1
        m   == IF mp < 10 THEN mp + 3 ELSE mp - 9
        y   == yoe + era * 400 + (IF m <= 2 THEN 1 ELSE 0)
    IN  [year |-> y, month |-> m, day |-> d]

\* the dates a pandas Timestamp can hold
TimestampMin == DaysFromCivil(1677, 9, 22)
TimestampMax == DaysFromCivil(2262, 4, 11)

-----------------------------------------------------------------------------
(* Section 2: load_table *)

TableNames == {"hr.fact_employee_clean", "hr.dim_department", "hr.dim_position",
               "hr.dim_manager", "hr.dim_race"}

\* pd.read_sql raises when the table cannot be read; load_table then returns
\* pd.DataFrame(), a frame with no columns
load_table(table_name) ==
    IF db[table_name].readable THEN db[table_name].frame ELSE EmptyFrame

-----------------------------------------------------------------------------
(* Section 3: dimension tables with numeric identifiers *)

\* df[[key]] raises KeyError when the frame has no such column
HasColumns(df, cols) == cols \subseteq df.columns

\* drop_duplicates(keep='last') in place of the default keep='first'
DropDuplicatesKeepLast(rows) ==
    LET F[i \in 0..Len(rows)] ==
            IF i = 0 THEN <<>>
            ELSE IF \E j \in (i + 1)..Len(rows) : rows[j] = rows[i]
                 THEN F[i - 1]
                 ELSE Append(F[i - 1], rows[i])
    IN  F[Len(rows)]

\* rows.drop_duplicates(): the first occurrence of every distinct row, in order
DropDuplicates(rows) ==
    LET F[i \in 0..Len(rows)] ==
            IF i = 0 THEN <<>>
            ELSE IF \E j \in 1..(i - 1) : rows[j] = rows[i]
                 THEN F[i - 1]
                 ELSE Append(F[i - 1], rows[i])
    IN  F[Len(rows)]

\* the identifier of the row at 0-based index position: index + 1
IndexToId(index) == index + 1

\* raw[[key]].drop_duplicates().reset_index(drop=True), then id = index + 1
BuildDimension(raw, key, id) ==
    LET ded == DropDuplicates(SelectColumns(raw, {key}).rows)
    IN  Frame({key, id},
              [i \in 1..Len(ded) |-> ded[i] @@ (id :> {IndexToId(i - 1)})])

-----------------------------------------------------------------------------
(* Section 4: the enriched analytics table *)

\* the rows of right a left row is joined with (pandas matches NaN with NaN)
Matches(l, right, left_on, right_on) ==
    LET Hit(r) == r[right_on] = l[left_on]
    IN  SelectSeq(right.rows, Hit)

\* how="inner" in place of how="left": a row without a match is dropped
MergeInner(left, right, left_on, right_on) ==
    LET added == right.columns \ left.columns
        Joined(l) ==
            LET ms == Matches(l, right, left_on, right_on)
            IN  [j \in 1..Len(ms) |-> l @@ [c \in added |-> ms[j][c]]]
    IN  Frame(left.columns \cup right.columns,
              Flatten([i \in 1..Len(left.rows) |-> Joined(left.rows[i])]))

\* left.merge(right, left_on=..., right_on=..., how="left")
Merge(left, right, left_on, right_on) ==
    LET added == right.columns \ left.columns
        Joined(l) ==
            LET ms == Matches(l, right, left_on, right_on)
            IN  IF ms = <<>>
                THEN << l @@ [c \in added |-> NaN] >>
                ELSE [j \in 1..Len(ms) |-> l @@ [c \in added |-> ms[j][c]]]
    IN  Frame(left.columns \cup right.columns,
              Flatten([i \in 1..Len(left.rows) |-> Joined(left.rows[i])]))

-----------------------------------------------------------------------------
(* Section 5: feature engineering *)

date_cols == {"date_of_birth", "date_of_hire", "date_of_termination"}

\* pd.to_datetime(cell, errors='coerce'): a date a Timestamp can hold, else NaT
ToDatetime(cell) ==
    IF IsNa(cell) THEN NaN
    ELSE LET v == Val(cell)
         IN  IF v.kind = "date" /\ TimestampMin <= v.day /\ v.day <= TimestampMax
             THEN {v.day} ELSE NaN

\* a.fillna(b)
Fillna(a, b) == IF IsNa(a) THEN b ELSE a

\* .dt.year
Year(date) == IF IsNa(date) THEN NaN ELSE {CivilFromDays(Val(date)).year}

\* .dt.to_period("M").astype(str): "YYYY-MM", and the text "NaT" for NaT
PeriodText(date) ==
    IF IsNa(date) THEN {NaTText}
    ELSE LET c == CivilFromDays(Val(date))
         IN  {Digits(c.year, 4) \o <<Dash>> \o Digits(c.month, 2)}

\* (a - b).dt.days
DaysBetween(a, b) == IF IsNa(a) \/ IsNa(b) THEN NaN ELSE {Val(a) - Val(b)}

bins   == <<-1, 180, 365, 1095, 99999>>
labels == <<"<6 months", "6-12 months", "1-3 years", "3+ years">>

\* pd.cut(x, bins, labels): label i when bins[i] < x <= bins[i+1], else NaN
Cut(x) ==
    IF IsNa(x) THEN NaN
    ELSE LET hit == {i \in 1..Len(labels) : bins[i] < Val(x) /\ Val(x) <= bins[i + 1]}
         IN  IF hit = {} THEN NaN ELSE {labels[CHOOSE i \in hit : TRUE]}

\* int(x) of one attrition_flag value; NaN here stands for the exception raised
AsInt(cell) ==
    IF IsNa(cell) THEN NaN
    ELSE LET v == Val(cell)
         IN  IF v.kind \in {"bool", "int"} THEN {v.val} ELSE NaN

CastFails(df) == \E i \in 1..Len(df.rows) : IsNa(AsInt(df.rows[i]["attrition_flag"]))

\* lines 126-134: the date columns parsed, event date, year, month, tenure
WithDates(df) ==
    LET Parsed(r) == [c \in DOMAIN r |-> IF c \in date_cols THEN ToDatetime(r[c]) ELSE r[c]]
        Derived(r) ==
            LET ed == Fillna(r["date_of_termination"], r["date_of_hire"])
                td == DaysBetween(ed, r["date_of_hire"])
            IN  r @@ [event_date    |-> ed,
                      event_year    |-> Year(ed),
                      event_month   |-> PeriodText(ed),
                      tenure_days   |-> td,
                      tenure_bucket |-> Cut(td)]
    IN  Frame(df.columns \cup {"event_date", "event_year", "event_month",
                               "tenure_days", "tenure_bucket"},
              [i \in 1..Len(df.rows) |-> Derived(Parsed(df.rows[i]))])

\* line 141: is_terminated = attrition_flag.astype(int)
WithIsTerminated(df) ==
    Frame(df.columns \cup {"is_terminated"},
          [i \in 1..Len(df.rows) |->
              df.rows[i] @@ [is_terminated |-> AsInt(df.rows[i]["attrition_flag"])]])

-----------------------------------------------------------------------------
(* Exact fractions, for attrition_rate and what is derived from it *)

RECURSIVE Gcd(_, _)
Gcd(a, b) == IF b = 0 THEN a ELSE Gcd(b, a % b)

Abs(n) == IF n < 0 THEN -n ELSE n

\* n / d in lowest terms, d > 0
Frac(n, d) ==
    LET g == Gcd(Abs(n), d)
    IN  [num |-> n \div g, den |-> d \div g]

FracAdd(a, b) == Frac(a.num * b.den + b.num * a.den, a.den * b.den)
FracSub(a, b) == Frac(a.num * b.den - b.num * a.den, a.den * b.den)
FracMulInt(a, k) == Frac(a.num * k, a.den)
FracDivInt(a, k) == Frac(a.num, a.den * k)
Zero == Frac(0, 1)

-----------------------------------------------------------------------------
(* Section 6: the monthly attrition summary *)

\* the order of the group keys (event_year, event_month)
KeyLess(a, b) == a[1] < b[1] \/ (a[1] = b[1] /\ LexLess(a[2], b[2]))

\* the elements of a set in ascending order
RECURSIVE SortKeys(_)
SortKeys(S) ==
    IF S = {} THEN <<>>
    ELSE LET least == CHOOSE k \in S : \A o \in S \ {k} : KeyLess(k, o)
         IN  <<least>> \o SortKeys(S \ {least})

\* groupby's default dropna=True: a row with a missing key is in no group
HasGroupKey(r) == ~IsNa(r["event_year"]) /\ ~IsNa(r["event_month"])

GroupKey(r) == <<Val(r["event_year"]), Val(r["event_month"])>>

\* ("employee_id", "nunique"): distinct values, missing ones not counted
NUnique(rows, col) == Cardinality({Val(r[col]) : r \in {q \in Range(rows) : ~IsNa(q[col])}})

\* ("is_terminated", "sum")
SumColumn(rows, col) == SumSeq([i \in 1..Len(rows) |-> Val(rows[i][col])])

\* lines 153-160: groupby(["event_year", "event_month"]).agg(...).reset_index()
GroupByMonth(df) ==
    LET grouped == SelectSeq(df.rows, HasGroupKey)
        keys    == SortKeys({GroupKey(r) : r \in Range(grouped)})
        Group(k) == LET In(r) == GroupKey(r) = k IN SelectSeq(grouped, In)
    IN  Frame({"event_year", "event_month", "employees_start", "employees_left"},
              [i \in 1..Len(keys) |->
                  [event_year      |-> {keys[i][1]},
                   event_month     |-> {keys[i][2]},
                   employees_start |-> {NUnique(Group(keys[i]), "employee_id")},
                   employees_left  |-> {SumColumn(Group(keys[i]), "is_terminated")}]])

\* lines 162-166: np.where(employees_start > 0, employees_left / employees_start, 0)
AttritionRate(employees_left, employees_start) ==
    IF employees_start > 0 THEN Frac(employees_left, employees_start) ELSE Zero

\* lines 162-167
WithRates(df) ==
    Frame(df.columns \cup {"attrition_rate", "attrition_percent"},
          [i \in 1..Len(df.rows) |->
              LET r    == df.rows[i]
                  rate == AttritionRate(Val(r["employees_left"]), Val(r["employees_start"]))
              IN  r @@ [attrition_rate    |-> {rate},
                        attrition_percent |-> {FracMulInt(rate, 100)}]])

\* df.sort_values(by=col) on a text column: insertion into ascending order
SortValues(df, col) ==
    LET Insert(sorted, r) ==
            LET before == {i \in 1..Len(sorted) : ~LexLess(Val(r[col]), Val(sorted[i][col]))}
                n      == Cardinality(before)
            IN  SubSeq(sorted, 1, n) \o <<r>> \o SubSeq(sorted, n + 1, Len(sorted))
        F[i \in 0..Len(df.rows)] ==
            IF i = 0 THEN <<>> ELSE Insert(F[i - 1], df.rows[i])
    IN  Frame(df.columns, F[Len(df.rows)])

window      == 3
min_periods == 1

\* expanding(min_periods=m).mean() in place of rolling: nothing leaves the window
ExpandingMean(xs, w, m) ==
    LET Acc[i \in 0..Len(xs)] ==
            IF i = 0 THEN [sum |-> Zero, nobs |-> 0]
            ELSE [sum  |-> FracAdd(Acc[i - 1].sum, xs[i]),
                  nobs |-> Acc[i - 1].nobs + 1]
    IN  [i \in 1..Len(xs) |->
            IF Acc[i].nobs >= m THEN {FracDivInt(Acc[i].sum, Acc[i].nobs)} ELSE NaN]

\* xs.rolling(window=w, min_periods=m).mean(): a running sum over a sliding
\* window, the entering value added and the leaving value removed
RollingMean(xs, w, m) ==
    LET Acc[i \in 0..Len(xs)] ==
            IF i = 0 THEN [sum |-> Zero, nobs |-> 0]
            ELSE LET added == [sum  |-> FracAdd(Acc[i - 1].sum, xs[i]),
                               nobs |-> Acc[i - 1].nobs + 1]
                 IN  IF i > w
                     THEN [sum  |-> FracSub(added.sum, xs[i - w]),
                           nobs |-> added.nobs - 1]
                     ELSE added
    IN  [i \in 1..Len(xs) |->
            IF Acc[i].nobs >= m THEN {FracDivInt(Acc[i].sum, Acc[i].nobs)} ELSE NaN]

\* lines 169-172
WithRolling(df) ==
    LET sorted == SortValues(df, "event_month")
        roll   == RollingMean([i \in 1..Len(sorted.rows) |->
                                   Val(sorted.rows[i]["attrition_percent"])],
                              window, min_periods)
    IN  Frame(sorted.columns \cup {"attrition_rolling3m_pct"},
              [i \in 1..Len(sorted.rows) |->
                  sorted.rows[i] @@ [attrition_rolling3m_pct |-> roll[i]]])

-----------------------------------------------------------------------------
(* Section 8: the Power BI star schema *)

\* the columns that hold text as strings, and the ones that hold it as codes
StringColumns == {"department", "position", "manager_name", "racedesc", "gender",
                  "performance_category", "department_name", "position_title",
                  "race_name", "tenure_bucket"}
CodeColumns   == {"event_month", "month"}

\* replace("unknown", np.nan): the sentinel misspelt, so that no cell matches
KeepCell(col, cell) == cell

\* cell.replace("Unknown", np.nan)
ReplaceCell(col, cell) ==
    IF col \in StringColumns /\ cell = {"Unknown"} THEN NaN
    ELSE IF col \in CodeColumns /\ cell = {UnknownText} THEN NaN
    ELSE cell

\* df.replace("Unknown", np.nan)
ReplaceUnknown(df) ==
    Frame(df.columns,
          [i \in 1..Len(df.rows) |->
              [c \in df.columns |-> ReplaceCell(c, df.rows[i][c])]])

\* lines 199-202: dim.replace("Unknown", np.nan).dropna()
CleanDimension(dim) ==
    LET replaced == ReplaceUnknown(dim)
    IN  DropNa(replaced, replaced.columns)

redundant_cols == {"department", "position", "department_name", "position_title",
                   "manager_name", "race_name"}

critical_cols == {"employee_id", "department_id", "position_id", "gender", "salary",
                  "date_of_hire", "performance_category"}

\* lines 224-226
DropMissingRace(df) ==
    IF "racedesc" \in df.columns
    THEN DropNa([df EXCEPT !.rows = [i \in 1..Len(df.rows) |->
                    [df.rows[i] EXCEPT !["racedesc"] = ReplaceCell("racedesc", @)]]],
                {"racedesc"})
    ELSE df

\* lines 212-239
CleanFact(df) ==
    LET fact_hr_final == DropColumns(df, redundant_cols)
        replaced      == ReplaceUnknown(fact_hr_final)
        with_race     == DropMissingRace(replaced)
        cols_to_check == critical_cols \cap with_race.columns
    IN  DropNa(with_race, cols_to_check)

fact_attrition_columns == {"event_month", "employees_start", "employees_left",
                           "attrition_rate", "attrition_percent",
                           "attrition_rolling3m_pct"}

\* lines 247-257
CleanMonthly(df) ==
    LET renamed == Rename(SelectColumns(df, fact_attrition_columns), "event_month", "month")
    IN  DropNa(renamed, renamed.columns)

-----------------------------------------------------------------------------
(* The store: the tables load_table can be given *)

MaxDim    == 3      \* rows of a raw lookup table
MaxFact   == 2      \* rows of the fact table, where its rows vary freely
NumMonths == 4      \* calendar months spanned by the fact table of a trend

SeqsUpTo(S, n) == UNION {[1..k -> S] : k \in 0..n}

Date(y, m, d) == {[kind |-> "date", day |-> DaysFromCivil(y, m, d)]}
DayNumber(n)  == {[kind |-> "date", day |-> n]}
BadDate       == {[kind |-> "text", day |-> 0]}          \* text that is no date
Bool(b)       == {[kind |-> "bool", val |-> IF b THEN 1 ELSE 0]}
IntFlag(n)    == {[kind |-> "int", val |-> n]}
TextFlag      == {[kind |-> "text", val |-> 0]}          \* text such as "Yes"

FactColumns == {"employee_id", "department", "position", "manager_name", "racedesc",
                "gender", "salary", "date_of_birth", "date_of_hire",
                "date_of_termination", "performance_category", "attrition_flag"}

\* an employee hired 2023-01-15, still active, every lookup value "A"
BaseRow ==
    [employee_id |-> {1}, department |-> {"A"}, position |-> {"A"},
     manager_name |-> {"A"}, racedesc |-> {"A"}, gender |-> {"F"},
     salary |-> {50000}, date_of_birth |-> Date(1990, 5, 17),
     date_of_hire |-> Date(2023, 1, 15), date_of_termination |-> NaN,
     performance_category |-> {"Fully Meets"}, attrition_flag |-> Bool(FALSE)]

\* the fact table whose i-th row is BaseRow with the fields of changes[i]
\* replaced and employee_id = i
FactTable(changes) ==
    [readable |-> TRUE,
     frame |-> Frame(FactColumns,
                     [i \in 1..Len(changes) |->
                         [c \in FactColumns |->
                             IF c \in DOMAIN changes[i] THEN changes[i][c]
                             ELSE IF c = "employee_id" THEN {i}
                             ELSE BaseRow[c]]])]

DimTable(key, cells) ==
    [readable |-> TRUE,
     frame |-> Frame({key}, [i \in 1..Len(cells) |-> (key :> cells[i])])]

Unreadable == [readable |-> FALSE, frame |-> EmptyFrame]

DimKey == [dept |-> "department", pos |-> "position", mgr |-> "manager_name",
           race |-> "race_name"]

DefaultCells == <<{"A"}, {"Unknown"}, NaN>>

Store(f, dept, pos, mgr, race) ==
    [t \in TableNames |->
        CASE t = "hr.fact_employee_clean" -> f
          [] t = "hr.dim_department"      -> dept
          [] t = "hr.dim_position"        -> pos
          [] t = "hr.dim_manager"         -> mgr
          [] t = "hr.dim_race"            -> race]

DefaultStore(f) ==
    Store(f, DimTable(DimKey.dept, DefaultCells), DimTable(DimKey.pos, DefaultCells),
          DimTable(DimKey.mgr, DefaultCells), DimTable(DimKey.race, DefaultCells))

\* one lookup table varies (or cannot be read), the others are the default
KeyCells == {{"A"}, {"Unknown"}, NaN}
LookupFact ==
    FactTable(<< [department |-> {"A"}],
                 [department |-> {"Unknown"}, position |-> {"Unknown"},
                  manager_name |-> {"Unknown"}],
                 [department |-> NaN, position |-> NaN, manager_name |-> NaN,
                  racedesc |-> {"B"}],
                 [department |-> {"B"}, position |-> {"B"}, manager_name |-> {"B"},
                  racedesc |-> {"Unknown"}] >>)
LookupTables(key) ==
    {Unreadable} \cup {DimTable(key, cells) : cells \in SeqsUpTo(KeyCells, MaxDim)}
LookupStores ==
    LET D(k) == DimTable(DimKey[k], DefaultCells)
    IN  {Store(LookupFact, t, D("pos"), D("mgr"), D("race")) : t \in LookupTables(DimKey.dept)}
        \cup {Store(LookupFact, D("dept"), t, D("mgr"), D("race")) : t \in LookupTables(DimKey.pos)}
        \cup {Store(LookupFact, D("dept"), D("pos"), t, D("race")) : t \in LookupTables(DimKey.mgr)}
        \cup {Store(LookupFact, D("dept"), D("pos"), D("mgr"), t) : t \in LookupTables(DimKey.race)}

\* the fact rows vary in their lookup values and required fields
KeyChanges ==
    {[department |-> {d}, position |-> {p}, manager_name |-> {p}, racedesc |-> {r}] :
        d \in {"A", "Unknown", "B"}, p \in {"A", "Unknown"}, r \in {"A", "Unknown"}}
    \cup {[gender |-> {"Unknown"}], [performance_category |-> NaN],
          [employee_id |-> NaN], [racedesc |-> NaN], [salary |-> NaN]}
KeyStores == {DefaultStore(FactTable(ch)) : ch \in SeqsUpTo(KeyChanges, MaxFact)}

\* the fact rows vary in their dates and attrition flag
TimeChanges ==
    {[date_of_hire |-> h, date_of_termination |-> t, attrition_flag |-> Bool(b)] :
        h \in {Date(2023, 1, 15), NaN},
        t \in {NaN, Date(2023, 3, 1), BadDate},
        b \in BOOLEAN}
    \cup {[date_of_hire |-> BadDate], [date_of_hire |-> Date(1500, 1, 1)],
          [date_of_termination |-> Date(2023, 1, 31), attrition_flag |-> Bool(TRUE)]}
TimeStores == {DefaultStore(FactTable(ch)) : ch \in SeqsUpTo(TimeChanges, MaxFact)}

\* attrition_flag columns that are not boolean
FlagChanges ==
    {[attrition_flag |-> f, date_of_termination |-> t] :
        f \in {IntFlag(0), IntFlag(1), IntFlag(2), TextFlag, NaN, Bool(TRUE)},
        t \in {NaN, Date(2023, 3, 1)}}
FlagStores == {DefaultStore(FactTable(ch)) : ch \in SeqsUpTo(FlagChanges, 2) \ {<<>>}}

\* one employee, hired on FirstDay, whose tenure is at an edge of a bucket
FirstDay == DaysFromCivil(1700, 1, 1)
TenureEdges == {-2, -1, 0, 1, 180, 181, 365, 366, 1095, 1096, 99999, 100000, 150000}
TenureStores ==
    {DefaultStore(FactTable(<< [date_of_hire |-> DayNumber(FirstDay),
                                date_of_termination |-> DayNumber(FirstDay + t),
                                attrition_flag |-> Bool(TRUE)] >>)) : t \in TenureEdges}

\* a trend: in each of NumMonths consecutive months from 2022-11 on, nobody,
\* one leaver, one joiner, or one leaver and one joiner; latest month first
MonthPatterns == {<<>>, <<TRUE>>, <<FALSE>>, <<TRUE, FALSE>>}
MonthDate(k) == Date(2022 + (10 + k - 1) \div 12, ((10 + k - 1) % 12) + 1, 5)
MonthRows(k, pattern) ==
    [j \in 1..Len(pattern) |->
        IF pattern[j]
        THEN [date_of_hire |-> Date(2020, 2, 29), date_of_termination |-> MonthDate(k),
              attrition_flag |-> Bool(TRUE)]
        ELSE [date_of_hire |-> MonthDate(k), attrition_flag |-> Bool(FALSE)]]
RECURSIVE TrendRows(_, _)
TrendRows(patterns, k) ==
    IF k = 0 THEN <<>> ELSE MonthRows(k, patterns[k]) \o TrendRows(patterns, k - 1)
TrendStores ==
    {DefaultStore(FactTable(TrendRows(ps, NumMonths))) : ps \in [1..NumMonths -> MonthPatterns]}

\* five months from 2023-01 on with 10, 5, 10, 5, 2 events of which 1, 1, 3, 2, 1
\* are terminations: attrition_percent 10, 20, 30, 40, 50
ExampleCounts == << <<10, 1>>, <<5, 1>>, <<10, 3>>, <<5, 2>>, <<2, 1>> >>
ExampleRows ==
    Flatten([k \in 1..Len(ExampleCounts) |->
                [j \in 1..ExampleCounts[k][1] |->
                    IF j <= ExampleCounts[k][2]
                    THEN [date_of_hire |-> Date(2021, 6, 1),
                          date_of_termination |-> Date(2023, k, 10),
                          attrition_flag |-> Bool(TRUE)]
                    ELSE [date_of_hire |-> Date(2023, k, 10),
                          attrition_flag |-> Bool(FALSE)]]])
\* three employees hired 2023-01-01, 2023-02-01, 2023-03-01, the first one
\* terminated 2023-04-01
ScenarioRows ==
    << [date_of_hire |-> Date(2023, 1, 1), date_of_termination |-> Date(2023, 4, 1),
        attrition_flag |-> Bool(TRUE)],
       [date_of_hire |-> Date(2023, 2, 1)],
       [date_of_hire |-> Date(2023, 3, 1)] >>
ExampleStores ==
    {DefaultStore(FactTable(ExampleRows)), DefaultStore(FactTable(ScenarioRows)),
     DefaultStore(Unreadable)}

Stores == LookupStores \cup KeyStores \cup TimeStores \cup FlagStores
              \cup TenureStores \cup TrendStores \cup ExampleStores

-----------------------------------------------------------------------------
(* The run *)

Init ==
    /\ db \in Stores
    /\ pc = "load"
    /\ error = "none"
    /\ fact = EmptyFrame /\ dim_dept_raw = EmptyFrame /\ dim_pos_raw = EmptyFrame
    /\ dim_mgr_raw = EmptyFrame /\ dim_race_raw = EmptyFrame
    /\ dim_departments = EmptyFrame /\ dim_positions = EmptyFrame
    /\ dim_managers = EmptyFrame /\ dim_race = EmptyFrame
    /\ df_analytics = EmptyFrame
    /\ monthly_summary = EmptyFrame
    /\ files = {}
    /\ dim_departments_clean = EmptyFrame /\ dim_positions_clean = EmptyFrame
    /\ dim_managers_clean = EmptyFrame /\ dim_race_clean = EmptyFrame
    /\ fact_hr_clean = EmptyFrame
    /\ fact_attrition_clean = EmptyFrame

\* an uncaught exception, or exit(): the run ends where it is
Abort(exception) == pc' = "aborted" /\ error' = exception

\* lines 64-68
LoadTables ==
    /\ pc = "load"
    /\ fact' = load_table("hr.fact_employee_clean")
    /\ dim_dept_raw' = load_table("hr.dim_department")
    /\ dim_pos_raw' = load_table("hr.dim_position")
    /\ dim_mgr_raw' = load_table("hr.dim_manager")
    /\ dim_race_raw' = load_table("hr.dim_race")
    /\ pc' = "check_fact"
    /\ UNCHANGED <<db, error, dims, df_analytics, monthly_summary, files, cleandims,
                   fact_hr_clean, fact_attrition_clean>>

\* lines 70-72, fact.empty
FactEmptyExit ==
    /\ pc = "check_fact"
    /\ IsEmpty(fact)
    /\ Abort("SystemExit")
    /\ UNCHANGED <<db, raws, dims, df_analytics, monthly_summary, files, cleandims,
                   fact_hr_clean, fact_attrition_clean>>

FactPresent ==
    /\ pc = "check_fact"
    /\ ~IsEmpty(fact)
    /\ pc' = "dim_departments"
    /\ UNCHANGED <<db, error, raws, dims, df_analytics, monthly_summary, files,
                   cleandims, fact_hr_clean, fact_attrition_clean>>

\* a statement of section 3 on a frame without the key column
DimensionKeyError(at, raw, key) ==
    /\ pc = at
    /\ ~HasColumns(raw, {key})
    /\ Abort("KeyError")
    /\ UNCHANGED <<db, raws, dims, df_analytics, monthly_summary, files, cleandims,
                   fact_hr_clean, fact_attrition_clean>>

\* lines 81-84
BuildDepartments ==
    /\ pc = "dim_departments"
    /\ HasColumns(dim_dept_raw, {"department"})
    /\ dim_departments' = Rename(BuildDimension(dim_dept_raw, "department", "department_id"),
                                 "department", "department_name")
    /\ pc' = "dim_positions"
    /\ UNCHANGED <<db, error, raws, dim_positions, dim_managers, dim_race, df_analytics,
                   monthly_summary, files, cleandims, fact_hr_clean, fact_attrition_clean>>

DepartmentsKeyError == DimensionKeyError("dim_departments", dim_dept_raw, "department")

\* lines 86-89
BuildPositions ==
    /\ pc = "dim_positions"
    /\ HasColumns(dim_pos_raw, {"position"})
    /\ dim_positions' = Rename(BuildDimension(dim_pos_raw, "position", "position_id"),
                               "position", "position_title")
    /\ pc' = "dim_managers"
    /\ UNCHANGED <<db, error, raws, dim_departments, dim_managers, dim_race, df_analytics,
                   monthly_summary, files, cleandims, fact_hr_clean, fact_attrition_clean>>

PositionsKeyError == DimensionKeyError("dim_positions", dim_pos_raw, "position")

\* lines 91-93
BuildManagers ==
    /\ pc = "dim_managers"
    /\ HasColumns(dim_mgr_raw, {"manager_name"})
    /\ dim_managers' = BuildDimension(dim_mgr_raw, "manager_name", "manager_id")
    /\ pc' = "dim_race"
    /\ UNCHANGED <<db, error, raws, dim_departments, dim_positions, dim_race, df_analytics,
                   monthly_summary, files, cleandims, fact_hr_clean, fact_attrition_clean>>

ManagersKeyError == DimensionKeyError("dim_managers", dim_mgr_raw, "manager_name")

\* lines 95-97
BuildRace ==
    /\ pc = "dim_race"
    /\ HasColumns(dim_race_raw, {"race_name"})
    /\ dim_race' = BuildDimension(dim_race_raw, "race_name", "race_id")
    /\ pc' = "join"
    /\ UNCHANGED <<db, error, raws, dim_departments, dim_positions, dim_managers,
                   df_analytics, monthly_summary, files, cleandims, fact_hr_clean,
                   fact_attrition_clean>>

RaceKeyError == DimensionKeyError("dim_race", dim_race_raw, "race_name")

\* lines 106-112
Enrich(f) ==
    Merge(Merge(Merge(Merge(f, dim_departments, "department", "department_name"),
                      dim_positions, "position", "position_title"),
                dim_managers, "manager_name", "manager_name"),
          dim_race, "racedesc", "race_name")

Join ==
    /\ pc = "join"
    /\ df_analytics' = Enrich(fact)
    /\ pc' = "features"
    /\ UNCHANGED <<db, error, raws, dims, monthly_summary, files, cleandims,
                   fact_hr_clean, fact_attrition_clean>>

\* lines 126-142
DeriveFeatures ==
    /\ pc = "features"
    /\ ~CastFails(df_analytics)
    /\ df_analytics' = WithIsTerminated(WithDates(df_analytics))
    /\ pc' = "rollup"
    /\ UNCHANGED <<db, error, raws, dims, monthly_summary, files, cleandims,
                   fact_hr_clean, fact_attrition_clean>>

\* line 141 raises: the columns of lines 126-139 are already in place
CastError ==
    /\ pc = "features"
    /\ CastFails(df_analytics)
    /\ df_analytics' = WithDates(df_analytics)
    /\ Abort("ValueError")
    /\ UNCHANGED <<db, raws, dims, monthly_summary, files, cleandims, fact_hr_clean,
                   fact_attrition_clean>>

\* lines 153-172
MonthlyRollup ==
    /\ pc = "rollup"
    /\ monthly_summary' = WithRolling(WithRates(GroupByMonth(df_analytics)))
    /\ pc' = "export_showcase"
    /\ UNCHANGED <<db, error, raws, dims, df_analytics, files, cleandims, fact_hr_clean,
                   fact_attrition_clean>>

\* lines 182-185
ExportShowcase ==
    /\ pc = "export_showcase"
    /\ files' = files \cup {"output/showcase/hr_analytics_showcase.csv",
                            "output/showcase/monthly_summary_showcase.csv"}
    /\ pc' = "clean_dimensions"
    /\ UNCHANGED <<db, error, raws, dims, df_analytics, monthly_summary, cleandims,
                   fact_hr_clean, fact_attrition_clean>>

\* lines 196-208
CleanDimensions ==
    /\ pc = "clean_dimensions"
    /\ dim_departments_clean' = CleanDimension(dim_departments)
    /\ dim_positions_clean' = CleanDimension(dim_positions)
    /\ dim_managers_clean' = CleanDimension(dim_managers)
    /\ dim_race_clean' = CleanDimension(dim_race)
    /\ files' = files \cup {"output/powerbi/dim_departments.csv",
                            "output/powerbi/dim_positions.csv",
                            "output/powerbi/dim_managers.csv",
                            "output/powerbi/dim_race.csv"}
    /\ pc' = "clean_fact"
    /\ UNCHANGED <<db, error, raws, dims, df_analytics, monthly_summary, fact_hr_clean,
                   fact_attrition_clean>>

\* lines 212-243
CleanFactTable ==
    /\ pc = "clean_fact"
    /\ fact_hr_clean' = CleanFact(df_analytics)
    /\ files' = files \cup {"output/powerbi/fact_hr_clean.csv"}
    /\ pc' = "clean_monthly"
    /\ UNCHANGED <<db, error, raws, dims, df_analytics, monthly_summary, cleandims,
                   fact_attrition_clean>>

\* lines 247-260
CleanMonthlyFact ==
    /\ pc = "clean_monthly"
    /\ fact_attrition_clean' = CleanMonthly(monthly_summary)
    /\ files' = files \cup {"output/powerbi/fact_attrition_monthly.csv"}
    /\ pc' = "plot"
    /\ UNCHANGED <<db, error, raws, dims, df_analytics, monthly_summary, cleandims,
                   fact_hr_clean>>

\* lines 269-308
PlotTrend ==
    /\ pc = "plot"
    /\ files' = files \cup {"output/showcase/org_attrition_trend.png"}
    /\ pc' = "done"
    /\ UNCHANGED <<db, error, raws, dims, df_analytics, monthly_summary, cleandims,
                   fact_hr_clean, fact_attrition_clean>>

Next ==
    \/ LoadTables
    \/ FactEmptyExit
    \/ FactPresent
    \/ BuildDepartments
    \/ DepartmentsKeyError
    \/ BuildPositions
    \/ PositionsKeyError
    \/ BuildManagers
    \/ ManagersKeyError
    \/ BuildRace
    \/ RaceKeyError
    \/ Join
    \/ DeriveFeatures
    \/ CastError
    \/ MonthlyRollup
    \/ ExportShowcase
    \/ CleanDimensions
    \/ CleanFactTable
    \/ CleanMonthlyFact
    \/ PlotTrend

Spec == Init /\ [][Next]_vars

-----------------------------------------------------------------------------
(* Properties *)

Column(df, col) == [i \in 1..Len(df.rows) |-> df.rows[i][col]]
IsBuilt(df) == df.columns # {}
FirstPosition(cells, v) == CHOOSE p \in 1..Len(cells) :
                              cells[p] = v /\ \A q \in 1..(p - 1) : cells[q] # v

\* one row per distinct natural-key value, identifiers 1..K in first-seen order
OneRowPerKey(raw, rawkey, dim, key, id) ==
    LET cells == Column(raw, rawkey)
        K     == Cardinality(Range(cells))
    IN  /\ Len(dim.rows) = K
        /\ Range(Column(dim, key)) = Range(cells)
        /\ \A i \in 1..Len(dim.rows) : dim.rows[i][id] = {i}
        /\ \A i, j \in 1..Len(dim.rows) :
              i < j => FirstPosition(cells, dim.rows[i][key])
                          < FirstPosition(cells, dim.rows[j][key])

\* C1: every dimension table built from a raw lookup table (department,
\* position, manager, race) has exactly one row per distinct natural-key value
\* of that table, and its identifiers are 1..K in order of first appearance.
C1_DimensionUniqueness ==
    /\ IsBuilt(dim_departments) =>
          OneRowPerKey(dim_dept_raw, "department", dim_departments,
                       "department_name", "department_id")
    /\ IsBuilt(dim_positions) =>
          OneRowPerKey(dim_pos_raw, "position", dim_positions,
                       "position_title", "position_id")
    /\ IsBuilt(dim_managers) =>
          OneRowPerKey(dim_mgr_raw, "manager_name", dim_managers,
                       "manager_name", "manager_id")
    /\ IsBuilt(dim_race) =>
          OneRowPerKey(dim_race_raw, "race_name", dim_race, "race_name", "race_id")

\* a lookup table with a repeated value after a different one has been built
HasLaterDuplicate(raw, rawkey, dim) ==
    /\ IsBuilt(dim)
    /\ Len(dim.rows) >= 2
    /\ \E p, q \in 1..Len(raw.rows) :
          p + 1 < q /\ raw.rows[p][rawkey] = raw.rows[q][rawkey]

C1_Witness ==
    /\ HasLaterDuplicate(dim_dept_raw, "department", dim_departments)
    /\ pc = "done"

\* the identifier the fact row gets from a dimension: that of the entry with
\* the row's natural key, missing when there is none
IdOfKey(dim, key, id, cell) ==
    IF \E r \in Range(dim.rows) : r[key] = cell
    THEN (CHOOSE r \in Range(dim.rows) : r[key] = cell)[id]
    ELSE NaN

\* C2: the enriched table has exactly one row per fact row, in order, with the
\* fact row's own fields unchanged; a fact row whose natural key matches no
\* dimension entry has a missing identifier for that dimension.
C2_JoinNonLoss ==
    IsBuilt(df_analytics) =>
        /\ Len(df_analytics.rows) = Len(fact.rows)
        /\ \A i \in 1..Len(fact.rows) :
              LET f == fact.rows[i]
                  e == df_analytics.rows[i]
              IN  /\ e["employee_id"] = f["employee_id"]
                  /\ \A c \in {"department", "position", "manager_name", "racedesc",
                               "gender", "salary", "performance_category",
                               "attrition_flag"} : e[c] = f[c]
                  /\ e["department_id"] = IdOfKey(dim_departments, "department_name",
                                                  "department_id", f["department"])
                  /\ e["position_id"] = IdOfKey(dim_positions, "position_title",
                                                "position_id", f["position"])
                  /\ e["manager_id"] = IdOfKey(dim_managers, "manager_name",
                                               "manager_id", f["manager_name"])
                  /\ e["race_id"] = IdOfKey(dim_race, "race_name", "race_id",
                                            f["racedesc"])

C2_Witness ==
    /\ pc = "features"
    /\ \E i, j \in 1..Len(df_analytics.rows) :
          /\ IsNa(df_analytics.rows[i]["department_id"])
          /\ ~IsNa(df_analytics.rows[j]["department_id"])
          /\ IsNa(df_analytics.rows[j]["race_id"])

\* C3: the sum of employees_left over the monthly summary rows equals the sum
\* of is_terminated over the enriched rows whose event_month is not missing.
C3_RollupTotals ==
    IsBuilt(monthly_summary) =>
        LET WithMonth(r) == ~IsNa(r["event_month"])
        IN  SumColumn(monthly_summary.rows, "employees_left")
               = SumColumn(SelectSeq(df_analytics.rows, WithMonth), "is_terminated")

RECURSIVE FracSum(_)
FracSum(xs) == IF xs = <<>> THEN Zero ELSE FracAdd(xs[1], FracSum(Tail(xs)))

Max(a, b) == IF a > b THEN a ELSE b

\* the mean of xs[from..to]
MeanOf(xs, from, to) == FracDivInt(FracSum(SubSeq(xs, from, to)), to - from + 1)

Whole(ns) == [i \in 1..Len(ns) |-> {Frac(ns[i], 1)}]

\* C4: the summary rows are in ascending order of event_month, and the rolling
\* column of the row at (0-based) position i is the mean of attrition_percent
\* over the rows at positions max(0, i-2)..i; attrition_percent
\* [10, 20, 30, 40, 50] gives [10, 15, 20, 30, 40].
C4_RollingAverage ==
    IsBuilt(monthly_summary) =>
        LET months  == Column(monthly_summary, "event_month")
            percent == [i \in 1..Len(months) |->
                           Val(monthly_summary.rows[i]["attrition_percent"])]
            rolling == Column(monthly_summary, "attrition_rolling3m_pct")
        IN  /\ \A i \in 1..(Len(months) - 1) : LexLess(Val(months[i]), Val(months[i + 1]))
            /\ \A i \in 1..Len(months) :
                  rolling[i] = {MeanOf(percent, Max(1, i - 2), i)}
            /\ Column(monthly_summary, "attrition_percent") = Whole(<<10, 20, 30, 40, 50>>)
                  => rolling = Whole(<<10, 15, 20, 30, 40>>)

C4_Witness ==
    /\ pc = "done"
    /\ Column(monthly_summary, "attrition_percent") = Whole(<<10, 20, 30, 40, 50>>)

\* the label the tenure buckets are documented to give
BucketOf(days) ==
    IF days < -1 THEN NaN
    ELSE IF 0 <= days /\ days <= 180 THEN {"<6 months"}
    ELSE IF 181 <= days /\ days <= 365 THEN {"6-12 months"}
    ELSE IF 366 <= days /\ days <= 1095 THEN {"1-3 years"}
    ELSE {"3+ years"}

\* C5: every tenure_days >= 0 has exactly one label: 0..180 "<6 months",
\* 181..365 "6-12 months", 366..1095 "1-3 years", anything above 1095
\* "3+ years" with no upper limit; values below -1 have no label.
C5_TenureBuckets ==
    "tenure_bucket" \in df_analytics.columns =>
        \A r \in Range(df_analytics.rows) :
            (~IsNa(r["tenure_days"]) /\ Val(r["tenure_days"]) # -1)
                => r["tenure_bucket"] = BucketOf(Val(r["tenure_days"]))

\* the cell of the column is the text "Unknown"
IsUnknown(col, cell) ==
    \/ col \in StringColumns /\ cell = {"Unknown"}
    \/ col \in CodeColumns /\ cell = {UnknownText}
NoUnknown(df) ==
    \A r \in Range(df.rows) : \A c \in df.columns : ~IsUnknown(c, r[c])

\* the rows of dim whose natural key is neither "Unknown" nor missing
KnownRows(dim, key) ==
    LET Known(r) == ~IsNa(r[key]) /\ ~IsUnknown(key, r[key])
    IN  SelectSeq(dim.rows, Known)

\* the enriched row passes the race policy and the required-field policy
PassesFactPolicy(r) ==
    \A c \in critical_cols \cup {"racedesc"} : ~IsNa(r[c]) /\ ~IsUnknown(c, r[c])

\* C6: no cell of a table of the Power BI bundle is the text "Unknown": the
\* cleaned dimensions hold exactly the dimension rows without it, and the
\* cleaned fact table holds exactly the enriched rows that pass the race and
\* required-field policy once "Unknown" counts as missing.
C6_SentinelCleaning ==
    /\ IsBuilt(dim_departments_clean) =>
          /\ NoUnknown(dim_departments_clean) /\ NoUnknown(dim_positions_clean)
          /\ NoUnknown(dim_managers_clean) /\ NoUnknown(dim_race_clean)
          /\ dim_departments_clean.rows = KnownRows(dim_departments, "department_name")
          /\ dim_positions_clean.rows = KnownRows(dim_positions, "position_title")
          /\ dim_managers_clean.rows = KnownRows(dim_managers, "manager_name")
          /\ dim_race_clean.rows = KnownRows(dim_race, "race_name")
    /\ IsBuilt(fact_hr_clean) =>
          /\ NoUnknown(fact_hr_clean)
          /\ Column(fact_hr_clean, "employee_id")
                = Column(Frame(df_analytics.columns,
                               SelectSeq(df_analytics.rows, PassesFactPolicy)),
                         "employee_id")
    /\ IsBuilt(fact_attrition_clean) => NoUnknown(fact_attrition_clean)

C6_Witness ==
    /\ pc = "done"
    /\ \E r \in Range(dim_departments.rows) : r["department_name"] = {"Unknown"}
    /\ \E r \in Range(df_analytics.rows) : r["gender"] = {"Unknown"}
    /\ \E r \in Range(df_analytics.rows) : r["department"] = {"Unknown"}
    /\ Len(fact_hr_clean.rows) >= 1
    /\ Len(fact_attrition_clean.rows) >= 1

\* the load of the raw table failed (a readable table has its key column)
LoadFailed(raw) == pc # "load" /\ raw = EmptyFrame

\* the run is not stopped, and once joined every fact row has a missing id
Degrades(raw, id) ==
    (LoadFailed(raw) /\ ~IsEmpty(fact)) =>
        /\ error # "KeyError"
        /\ IsBuilt(df_analytics) => \A r \in Range(df_analytics.rows) : IsNa(r[id])

\* C7: a dimension source table whose load failed, with a fact table that is
\* not empty, does not stop the run: the dimension is built empty without
\* error, the join leaves its identifier missing on every fact row, and the
\* run goes on.
C7_GracefulDegradation ==
    /\ Degrades(dim_dept_raw, "department_id")
    /\ Degrades(dim_pos_raw, "position_id")
    /\ Degrades(dim_mgr_raw, "manager_id")
    /\ Degrades(dim_race_raw, "race_id")

\* the attrition flag values that mean true or false
TrueLike  == {Bool(TRUE), IntFlag(1)}
FalseLike == {Bool(FALSE), IntFlag(0)}

\* C8: is_terminated is 0 or 1 on every row once the cast is done, and a flag
\* that is neither true-like nor false-like stops the run at the cast.
C8_StrictAttritionFlag ==
    /\ "is_terminated" \in df_analytics.columns =>
          \A r \in Range(df_analytics.rows) : r["is_terminated"] \in {{0}, {1}}
    /\ (/\ IsBuilt(df_analytics)
        /\ pc # "features"
        /\ \E r \in Range(df_analytics.rows) :
              r["attrition_flag"] \notin TrueLike \cup FalseLike)
          => (pc = "aborted" /\ error = "ValueError")

\* C9: event_date is the termination date when there is one and the hire date
\* otherwise; a row with neither has a missing event_date, event_year and
\* event_month.
C9_EventDateFallback ==
    "event_date" \in df_analytics.columns =>
        \A r \in Range(df_analytics.rows) :
            /\ r["event_date"] = (IF ~IsNa(r["date_of_termination"])
                                  THEN r["date_of_termination"]
                                  ELSE r["date_of_hire"])
            /\ (IsNa(r["date_of_termination"]) /\ IsNa(r["date_of_hire"]))
                  => /\ IsNa(r["event_date"])
                     /\ IsNa(r["event_year"])
                     /\ IsNa(r["event_month"])

\* every identifier present in the fact column is one of the dimension's
RefersTo(factdf, id, dim) ==
    \A r \in Range(factdf.rows) :
        ~IsNa(r[id]) => \E d \in Range(dim.rows) : d[id] = r[id]

\* C10: every department_id, position_id, manager_id and race_id present in a
\* row of fact_hr_clean is the identifier of a row of the cleaned dimension
\* table of the same run.
C10_ReferentialIntegrity ==
    IsBuilt(fact_hr_clean) =>
        /\ RefersTo(fact_hr_clean, "department_id", dim_departments_clean)
        /\ RefersTo(fact_hr_clean, "position_id", dim_positions_clean)
        /\ RefersTo(fact_hr_clean, "manager_id", dim_managers_clean)
        /\ RefersTo(fact_hr_clean, "race_id", dim_race_clean)

====
